---- MODULE Spec2Model ----
(***************************************************************************)
(* Model of the block-paced batching broadcaster of the feegrant faucet    *)
(* (src/src/server.ts, second revision, lines 446-1028): the module-level  *)
(* queue a_enqueued, the cooldown counter c_clearing, the async procedure  *)
(* check_queue with its await points, and enqueue.                          *)
(*                                                                         *)
(* JavaScript runs one callback at a time, so every action below is the    *)
(* code between two consecutive awaits of one invocation.                  *)
(***************************************************************************)
EXTENDS Integers, Sequences, FiniteSets, TLC

VARIABLES
  a_enqueued,     \* the module-level queue, as request numbers
  c_clearing,     \* the cooldown counter
  reqs,           \* reqs[r]: the Enqueued tuple made by the r-th enqueue
  future,         \* future[r]: the deferred of request r
  exec,           \* exec[e]: the locals of a suspended check_queue invocation
  last_op,        \* "check_queue" iff the last step was an entry of check_queue
  was_postponed,  \* history: requests some batch build has postponed
  delivered,      \* the a_results the last step passed to the callbacks, if any
  src,            \* the block event source: timers, sockets, subscription attempts
  http            \* the claim handlers in progress and the allowances on chain

vars == <<a_enqueued, c_clearing, reqs, future, exec, last_op, was_postponed,
          delivered, src, http>>

(***************************************************************************)
(* Bounds of the model                                                     *)
(***************************************************************************)
\* total number of calls of enqueue in one behaviour
MaxReq == 3
\* number of check_queue invocations that may be suspended at an await at once
MaxExec == 2

(***************************************************************************)
(* Program constants                                                       *)
(***************************************************************************)
XG_LIMIT_GRANT == 15000
XG_LIMIT_REVOKE == 15000
\* i_retry < MAX_RETRY lets a sequence mismatch be retried
MAX_RETRY == 2
\* value c_clearing is armed with after a submission
CLEARING_AFTER_SUBMIT == 1
\* sdk code of "account sequence mismatch"
SDK_WRONG_SEQUENCE == 32

(***************************************************************************)
(* Input domains                                                           *)
(***************************************************************************)
\* grantee addresses
Grantees == {"secret1a", "secret1b"}
\* message payloads (Uint8Array) as byte sequences; enqueue is exported and
\* takes any payload with any grantee
Payloads == {<<18, 97>>, <<10, 97, 200>>}
GasLimits == {XG_LIMIT_GRANT, XG_LIMIT_REVOKE}
\* sequence numbers a node may report in "expected N"
ExpectedSeqs == {42}
\* m_expected = null: the log does not match /expected (\d+)/
NoMatch == -1
\* account numbers auth() may return
AccountNumbers == {7}

(***************************************************************************)
(* Helpers                                                                 *)
(***************************************************************************)
Range(s) == {s[i] : i \in 1..Len(s)}

RECURSIVE SumSeq(_)
SumSeq(s) == IF s = <<>> THEN 0 ELSE Head(s) + SumSeq(Tail(s))

\* Array.prototype.indexOf, 1-based, 0 when absent
RECURSIVE IndexFrom(_, _, _)
IndexFrom(a, x, i) ==
  IF i > Len(a) THEN 0
  ELSE IF a[i] = x THEN i
  ELSE IndexFrom(a, x, i + 1)

indexOf(a, x) == IndexFrom(a, x, 1)

\* Array.prototype.splice(i, 1)
splice1(a, i) == SubSeq(a, 1, i - 1) \o SubSeq(a, i + 1, Len(a))

\* mutant: remove leaves the array alone
remove_noop(a, x) == a

\* belt's remove(a_items, w_item): delete the first occurrence, in place
remove(a, x) ==
  IF indexOf(a, x) > 0 THEN splice1(a, indexOf(a, x)) ELSE a

(***************************************************************************)
(* safe_bytes_to_base64(atu8_msg) || ''                                    *)
(* The result is the sequence of sextets, 64 standing for the pad '='.     *)
(***************************************************************************)
PAD == 64

RECURSIVE bytes_to_base64(_)
bytes_to_base64(b) ==
  IF Len(b) = 0 THEN <<>>
  ELSE IF Len(b) = 1 THEN
    << b[1] \div 4, (b[1] % 4) * 16, PAD, PAD >>
  ELSE IF Len(b) = 2 THEN
    << b[1] \div 4, (b[1] % 4) * 16 + (b[2] \div 16), (b[2] % 16) * 4, PAD >>
  ELSE
    << b[1] \div 4, (b[1] % 4) * 16 + (b[2] \div 16),
       (b[2] % 16) * 4 + (b[3] \div 64), b[3] % 64 >>
    \o bytes_to_base64(SubSeq(b, 4, Len(b)))

safe_bytes_to_base64(b) == bytes_to_base64(b)

(***************************************************************************)
(* Requests: reqs[r] is the Enqueued tuple created by the r-th enqueue;    *)
(* the deferred of request r is future[r].                                 *)
(***************************************************************************)
Enqueued == [atu8_msg : Payloads, xg_limit : GasLimits, sa_grantee : Grantees]

\* state of a deferred: calls counts the invocations of its callback, tx is
\* the message list of the transaction whose result it was resolved with
Unsettled == [state |-> "pending", calls |-> 0, tx |-> <<>>]

\* fke_granted(a_results): resolve; a settled promise keeps its first value.
\* Of a_results the deferred records the transaction it is the result of.
fke_resolve(f, msgs) ==
  IF f.state = "pending"
  THEN [state |-> "resolved", calls |-> f.calls + 1, tx |-> msgs]
  ELSE [f EXCEPT !.calls = f.calls + 1]

\* fke_granted(__UNDEFINED, e_process): reject
fke_reject(f) ==
  IF f.state = "pending"
  THEN [state |-> "rejected", calls |-> f.calls + 1, tx |-> <<>>]
  ELSE [f EXCEPT !.calls = f.calls + 1]

(***************************************************************************)
(* TxResultTuple as far as check_queue reads it: xc_code, g_meta.codespace,*)
(* g_meta.code and the number matched in g_meta.log (NoMatch if none).     *)
(***************************************************************************)
TxOk == [xc_code |-> 0, codespace |-> "", code |-> 0, expected |-> NoMatch]
TxFail == [xc_code |-> 5, codespace |-> "sdk", code |-> 5, expected |-> NoMatch]
TxSeqNoLog == [xc_code |-> 32, codespace |-> "sdk", code |-> SDK_WRONG_SEQUENCE, expected |-> NoMatch]
TxSeq(n) == [xc_code |-> 32, codespace |-> "sdk", code |-> SDK_WRONG_SEQUENCE, expected |-> n]

TxOutcomes == {TxOk, TxFail, TxSeqNoLog} \cup {TxSeq(n) : n \in ExpectedSeqs}

\* value of delivered after a step that resolved no future
NoDelivery == <<>>

(***************************************************************************)
(* Batch build: a_dequeued.reduce(...) of check_queue.                     *)
(* reduce fixes len before the first call and visits index k only if it is *)
(* still present; the callback removes postponed requests from the array   *)
(* it is iterating.  st carries the array and the accumulators; ReduceFrom  *)
(* binds each new st through a singleton set so that it is computed once.  *)
(***************************************************************************)
\* mutant: the reduce starts with every grantee claimed
BuildInit_all_claimed(a_dequeued) ==
  [a_dequeued |-> a_dequeued, as_grantees |-> Grantees, as_msgs |-> {},
   a_msgs |-> <<>>, a_accepted |-> <<>>, a_postponed |-> <<>>,
   a_dropped |-> <<>>, a_visited |-> <<>>]

BuildInit(a_dequeued) ==
  [a_dequeued |-> a_dequeued, as_grantees |-> {}, as_msgs |-> {},
   a_msgs |-> <<>>, a_accepted |-> <<>>, a_postponed |-> <<>>,
   a_dropped |-> <<>>, a_visited |-> <<>>]

\* mutant: the callback accepts a message whatever its grantee
ReduceStep_any_grantee(st, r) ==
  LET atu8_msg == reqs[r].atu8_msg
      sa_grantee == reqs[r].sa_grantee
      sb64_msg == safe_bytes_to_base64(atu8_msg)
      st1 == [st EXCEPT !.a_visited = Append(@, r)]
  IN IF sb64_msg \notin st.as_msgs
     THEN [st1 EXCEPT !.as_msgs = @ \cup {sb64_msg},
                      !.as_grantees = @ \cup {sa_grantee},
                      !.a_msgs = Append(@, atu8_msg),
                      !.a_accepted = Append(@, r)]
     ELSE [st1 EXCEPT !.a_dropped = Append(@, r)]

\* mutant: the callback never looks a message up in as_msgs
ReduceStep_no_dedupe(st, r) ==
  LET atu8_msg == reqs[r].atu8_msg
      sa_grantee == reqs[r].sa_grantee
      sb64_msg == safe_bytes_to_base64(atu8_msg)
      st1 == [st EXCEPT !.a_visited = Append(@, r)]
  IN IF sa_grantee \in st.as_grantees
     THEN [st1 EXCEPT !.as_msgs = @ \cup {sb64_msg},
                      !.a_dequeued = remove(@, r),
                      !.a_postponed = Append(@, r)]
     ELSE [st1 EXCEPT !.as_msgs = @ \cup {sb64_msg},
                      !.as_grantees = @ \cup {sa_grantee},
                      !.a_msgs = Append(@, atu8_msg),
                      !.a_accepted = Append(@, r)]

\* the reduce callback applied to request r (one element of a_dequeued)
ReduceStep(st, r) ==
  LET atu8_msg == reqs[r].atu8_msg
      sa_grantee == reqs[r].sa_grantee
      sb64_msg == safe_bytes_to_base64(atu8_msg)
      st1 == [st EXCEPT !.a_visited = Append(@, r)]
  IN IF sb64_msg \notin st.as_msgs
     THEN IF sa_grantee \in st.as_grantees
          THEN [st1 EXCEPT !.as_msgs = @ \cup {sb64_msg},
                           !.a_dequeued = remove(@, r),
                           !.a_postponed = Append(@, r)]
          ELSE [st1 EXCEPT !.as_msgs = @ \cup {sb64_msg},
                           !.as_grantees = @ \cup {sa_grantee},
                           !.a_msgs = Append(@, atu8_msg),
                           !.a_accepted = Append(@, r)]
     ELSE [st1 EXCEPT !.a_dropped = Append(@, r)]

RECURSIVE ReduceFrom(_, _, _)
ReduceFrom(st, k, len) ==
  IF k > len THEN st
  ELSE IF k > Len(st.a_dequeued) THEN ReduceFrom(st, k + 1, len)
  ELSE CHOOSE out \in {ReduceFrom(st1, k + 1, len) :
                         st1 \in {ReduceStep(st, st.a_dequeued[k])}} : TRUE

BuildBatch(a_dequeued) == ReduceFrom(BuildInit(a_dequeued), 1, Len(a_dequeued))

\* a_dequeued.reduce((xg_sum, [, xg]) => xg_sum + xg, 0n)
SumLimits(a_dequeued) == SumSeq([i \in 1..Len(a_dequeued) |-> reqs[a_dequeued[i]].xg_limit])

(***************************************************************************)
(* Block event source: the interval i_regularly_check, the timer           *)
(* i_terminate, the pending setTimeout(subscribe_new_blocks, 60e3) timers  *)
(* and the sockets opened by TendermintWs.  A socket is                    *)
(*   "connecting"  its subscribe_new_blocks awaits it (timeout_exec),      *)
(*   "abandoned"   timeout_exec gave up on it; the connection goes on,     *)
(*   "open"        established in time, k_ws is the socket,                *)
(*   "zombie"      established after the timeout, k_ws is undefined,       *)
(*   "closing"     close() was called on it,                               *)
(*   "none"        free slot (never opened, or closed).                    *)
(* terminate is 0 or the socket whose message callback armed i_terminate.  *)
(* stale records that i_terminate has fired and no block event came since. *)
(***************************************************************************)
\* number of sockets that may exist at once
MaxSockets == 2
\* number of re-subscribe timers that may be pending at once
MaxResub == 2

Sockets == 1..MaxSockets

\* module load: subscribe_new_blocks() has run up to its await
SrcInit ==
  [interval |-> FALSE, terminate |-> 0, resub |-> 0,
   sockets |-> [s \in Sockets |-> IF s = 1 THEN "connecting" ELSE "none"],
   stale |-> FALSE]

\* check_queue_regularly(): clearInterval, setInterval
check_queue_regularly(x) == [x EXCEPT !.interval = TRUE]

FreeSockets(x) == {s \in Sockets : x.sockets[s] = "none"}

\* subscribe_new_blocks() up to its await: clearInterval, TendermintWs(...)
subscribe_new_blocks(x) ==
  LET s == CHOOSE t \in FreeSockets(x) : \A u \in FreeSockets(x) : t <= u
  IN [x EXCEPT !.interval = FALSE, !.sockets[s] = "connecting"]

(***************************************************************************)
(* The claim handler and the chain it talks to.                            *)
(* An address is what bech32 makes of the text: its human-readable part,   *)
(* the bytes it carries and whether its checksum verifies.  The chain      *)
(* keeps at most one allowance per (granter, grantee); the granter is the  *)
(* server wallet and the model has one well-formed grantee address.        *)
(***************************************************************************)
\* number of claim requests in one behaviour
MaxClaims == 2

\* ALLOWANCE_AMOUNT as the startup message proposes it, and the amount the
\* grant message carries
XG_ALLOWANCE == 500000
GRANT_AMOUNT == 500000

AddrValid == [hrp |-> "secret", data |-> [i \in 1..20 |-> 97], checksum |-> TRUE]
AddrShort == [hrp |-> "secret", data |-> <<97, 97, 97>>, checksum |-> TRUE]
AddrBadSum == [hrp |-> "secret", data |-> [i \in 1..20 |-> 97], checksum |-> FALSE]
AddrForeign == [hrp |-> "cosmos", data |-> [i \in 1..20 |-> 97], checksum |-> TRUE]

ClaimAddresses == {AddrValid, AddrShort, AddrBadSum, AddrForeign}

\* Date.now() + 24 h as carried by a grant message, abridged to a byte
Stamps == {200, 201}

\* mutant: the length of the decoded data is not checked
AddressAccepted_any_length(sa_grantee) ==
  /\ sa_grantee.hrp = "secret"
  /\ sa_grantee.checksum

\* the try block of claim: startsWith('secret1'), bech32_decode, length 20
AddressAccepted(sa_grantee) ==
  /\ sa_grantee.hrp = "secret"
  /\ sa_grantee.checksum
  /\ Len(sa_grantee.data) = 20

\* encodeGoogleProtobufAny(MsgRevokeAllowance(granter, grantee))
MsgRevoke(sa_grantee) == <<18, sa_grantee.data[1]>>

\* encodeGoogleProtobufAny(MsgGrantAllowance(granter, grantee, allowance))
MsgGrant(sa_grantee, stamp) == <<10, sa_grantee.data[1], stamp>>

\* no allowance on chain
NoAllowance == [amount |-> 0, fresh |-> FALSE]

\* the chain executes the messages of a transaction in order, all or nothing:
\* a grant fails when an allowance exists, a revoke when none exists.
\* The result is <<allowance afterwards, TRUE iff every message succeeded>>.
RECURSIVE ChainExec(_, _, _)
ChainExec(allowance, a_msgs, k) ==
  IF k > Len(a_msgs) THEN <<allowance, TRUE>>
  ELSE IF a_msgs[k][1] = 18
       THEN IF allowance = NoAllowance THEN <<allowance, FALSE>>
            ELSE ChainExec(NoAllowance, a_msgs, k + 1)
       ELSE IF allowance # NoAllowance THEN <<allowance, FALSE>>
            ELSE ChainExec([amount |-> GRANT_AMOUNT, fresh |-> TRUE], a_msgs, k + 1)

\* no transaction of invocation e has been included yet
NotIncluded == [key |-> <<>>, res |-> TxOk]

\* a claim handler: pc is "query", "revoke", "grant" or "done"; wait is the
\* request whose future it awaits; status is the HTTP status it replied;
\* queried tells that it has queried the allowance; enqueued lists the
\* requests it has enqueued
NewClaim(sa_grantee) ==
  [sa_grantee |-> sa_grantee, pc |-> "query", wait |-> 0, status |-> 0,
   queried |-> TRUE, enqueued |-> <<>>]

HttpInit ==
  [claims |-> <<>>, allowance |-> NoAllowance,
   included |-> [e \in 1..MaxExec |-> NotIncluded]]

(***************************************************************************)
(* One invocation of check_queue suspended at an await                     *)
(***************************************************************************)
IdleExec ==
  [pc |-> "idle", a_dequeued |-> <<>>, a_postponed |-> <<>>, a_msgs |-> <<>>,
   a_accepted |-> <<>>, xg_limit |-> 0, i_retry |-> 0, z_auth |-> <<>>,
   a_results |-> TxOk, snapshot |-> <<>>, postponed_all |-> <<>>]

Execs == 1..MaxExec

Running == {e \in Execs : exec[e].pc # "idle"}

\* mutant: the limits are summed before the batch is built
Attempt_sum_first(x, a_dequeued, i_retry, z_auth) ==
  LET b == BuildBatch(a_dequeued)
  IN [x EXCEPT !.pc = "sign",
               !.a_dequeued = b.a_dequeued,
               !.a_postponed = b.a_postponed,
               !.a_msgs = b.a_msgs,
               !.a_accepted = b.a_accepted,
               !.xg_limit = SumLimits(a_dequeued),
               !.i_retry = i_retry,
               !.z_auth = z_auth,
               !.postponed_all = @ \o b.a_postponed]

\* one pass of the RETRY_TRANSACTION body up to the await of
\* create_and_sign_tx_direct
Attempt(x, a_dequeued, i_retry, z_auth) ==
  LET b == BuildBatch(a_dequeued)
  IN [x EXCEPT !.pc = "sign",
               !.a_dequeued = b.a_dequeued,
               !.a_postponed = b.a_postponed,
               !.a_msgs = b.a_msgs,
               !.a_accepted = b.a_accepted,
               !.xg_limit = SumLimits(b.a_dequeued),
               !.i_retry = i_retry,
               !.z_auth = z_auth,
               !.postponed_all = @ \o b.a_postponed]

Init ==
  /\ a_enqueued = <<>>
  /\ c_clearing = 0
  /\ reqs = <<>>
  /\ future = <<>>
  /\ exec = [e \in Execs |-> IdleExec]
  /\ last_op = "other"
  /\ was_postponed = {}
  /\ delivered = NoDelivery
  /\ src = SrcInit
  /\ http = HttpInit

\* mutant: enqueue puts the request at the head of the queue
enqueue_unshift(atu8_msg, xg_limit, sa_grantee) ==
  /\ Len(reqs) < MaxReq
  /\ reqs' = Append(reqs, [atu8_msg |-> atu8_msg, xg_limit |-> xg_limit,
                           sa_grantee |-> sa_grantee])
  /\ future' = Append(future, Unsettled)
  /\ a_enqueued' = <<Len(reqs) + 1>> \o a_enqueued
  /\ last_op' = "other"
  /\ delivered' = NoDelivery
  /\ UNCHANGED <<c_clearing, exec, was_postponed, src, http>>

\* enqueue(atu8_msg, xg_limit, sa_grantee)
enqueue(atu8_msg, xg_limit, sa_grantee) ==
  /\ Len(reqs) < MaxReq
  /\ reqs' = Append(reqs, [atu8_msg |-> atu8_msg, xg_limit |-> xg_limit,
                           sa_grantee |-> sa_grantee])
  /\ future' = Append(future, Unsettled)
  /\ a_enqueued' = Append(a_enqueued, Len(reqs) + 1)
  /\ last_op' = "other"
  /\ delivered' = NoDelivery
  /\ UNCHANGED <<c_clearing, exec, was_postponed, src, http>>

\* check_queue entered with c_clearing > 0
check_queue_clearing ==
  /\ c_clearing > 0
  /\ c_clearing' = c_clearing - 1
  /\ last_op' = "check_queue"
  /\ delivered' = NoDelivery
  /\ UNCHANGED <<a_enqueued, reqs, future, exec, was_postponed, src, http>>

\* check_queue entered with nothing enqueued
check_queue_empty ==
  /\ c_clearing = 0
  /\ Len(a_enqueued) = 0
  /\ last_op' = "check_queue"
  /\ delivered' = NoDelivery
  /\ UNCHANGED <<a_enqueued, c_clearing, reqs, future, exec, was_postponed, src, http>>

\* mutant: the drain takes the head of the queue only
check_queue_drain_head(e) ==
  /\ c_clearing = 0
  /\ Len(a_enqueued) > 0
  /\ exec[e].pc = "idle"
  /\ \A d \in Execs : exec[d].pc = "idle" => e <= d
  /\ a_enqueued' = Tail(a_enqueued)
  /\ LET x == Attempt([IdleExec EXCEPT !.snapshot = <<Head(a_enqueued)>>],
                      <<Head(a_enqueued)>>, 0, <<>>)
     IN /\ exec' = [exec EXCEPT ![e] = x]
        /\ was_postponed' = was_postponed \cup Range(x.a_postponed)
  /\ last_op' = "check_queue"
  /\ delivered' = NoDelivery
  /\ UNCHANGED <<c_clearing, reqs, future, src, http>>

\* mutant: the cooldown branch does not return
check_queue_drain_no_return(e) ==
  /\ Len(a_enqueued) > 0
  /\ exec[e].pc = "idle"
  /\ \A d \in Execs : exec[d].pc = "idle" => e <= d
  /\ a_enqueued' = <<>>
  /\ c_clearing' = IF c_clearing > 0 THEN c_clearing - 1 ELSE c_clearing
  /\ LET x == Attempt([IdleExec EXCEPT !.snapshot = a_enqueued], a_enqueued, 0, <<>>)
     IN /\ exec' = [exec EXCEPT ![e] = x]
        /\ was_postponed' = was_postponed \cup Range(x.a_postponed)
  /\ last_op' = "check_queue"
  /\ delivered' = NoDelivery
  /\ UNCHANGED <<reqs, future, src, http>>

\* check_queue: drain, first attempt, up to the await of the signing
check_queue_drain(e) ==
  /\ c_clearing = 0
  /\ Len(a_enqueued) > 0
  /\ exec[e].pc = "idle"
  /\ \A d \in Execs : exec[d].pc = "idle" => e <= d
  /\ a_enqueued' = <<>>
  /\ LET x == Attempt([IdleExec EXCEPT !.snapshot = a_enqueued], a_enqueued, 0, <<>>)
     IN /\ exec' = [exec EXCEPT ![e] = x]
        /\ was_postponed' = was_postponed \cup Range(x.a_postponed)
  /\ last_op' = "check_queue"
  /\ delivered' = NoDelivery
  /\ UNCHANGED <<c_clearing, reqs, future, src, http>>

check_queue ==
  \/ check_queue_clearing
  \/ check_queue_empty
  \/ \E e \in Execs : check_queue_drain(e)

\* mutant: the error is forwarded to the callbacks in a_enqueued as well
Catch_with_pending(e) ==
  /\ future' = [r \in 1..Len(future) |->
                  IF r \in Range(exec[e].a_dequeued) \cup Range(a_enqueued)
                  THEN fke_reject(future[r])
                  ELSE future[r]]
  /\ exec' = [exec EXCEPT ![e] = IdleExec]
  /\ last_op' = "other"
  /\ delivered' = NoDelivery
  /\ UNCHANGED <<a_enqueued, c_clearing, reqs, was_postponed, src, http>>

\* catch(e_process): forward the error to each callback of a_dequeued, return
Catch(e) ==
  /\ future' = [r \in 1..Len(future) |->
                  IF r \in Range(exec[e].a_dequeued) THEN fke_reject(future[r])
                  ELSE future[r]]
  /\ exec' = [exec EXCEPT ![e] = IdleExec]
  /\ last_op' = "other"
  /\ delivered' = NoDelivery
  /\ UNCHANGED <<a_enqueued, c_clearing, reqs, was_postponed, src, http>>

\* create_and_sign_tx_direct resolves; broadcast_result is called
sign_returns(e) ==
  /\ exec[e].pc = "sign"
  /\ exec' = [exec EXCEPT ![e].pc = "broadcast"]
  /\ last_op' = "other"
  /\ delivered' = NoDelivery
  /\ UNCHANGED <<a_enqueued, c_clearing, reqs, future, was_postponed, src, http>>

\* create_and_sign_tx_direct rejects
sign_throws(e) ==
  /\ exec[e].pc = "sign"
  /\ Catch(e)

\* mutant: the cooldown is not armed
Finish_no_cooldown(e, a_results) ==
  /\ a_enqueued' = a_enqueued \o exec[e].a_postponed
  /\ future' = [r \in 1..Len(future) |->
                  IF r \in Range(exec[e].a_dequeued)
                  THEN fke_resolve(future[r], exec[e].a_msgs)
                  ELSE future[r]]
  /\ exec' = [exec EXCEPT ![e] = IdleExec]
  /\ last_op' = "other"
  /\ delivered' = a_results
  /\ UNCHANGED <<c_clearing, reqs, was_postponed, src, http>>

\* the code after the try block: un-postpone, resolve a_dequeued, arm cooldown
Finish(e, a_results) ==
  /\ a_enqueued' = a_enqueued \o exec[e].a_postponed
  /\ future' = [r \in 1..Len(future) |->
                  IF r \in Range(exec[e].a_dequeued)
                  THEN fke_resolve(future[r], exec[e].a_msgs)
                  ELSE future[r]]
  /\ c_clearing' = CLEARING_AFTER_SUBMIT
  /\ exec' = [exec EXCEPT ![e] = IdleExec]
  /\ last_op' = "other"
  /\ delivered' = a_results
  /\ UNCHANGED <<reqs, was_postponed, src, http>>

\* mutant: the retry test has no cap
ShouldRetry_no_cap(a_results, i_retry) ==
  /\ a_results.xc_code # 0
  /\ a_results.codespace = "sdk"
  /\ a_results.code = SDK_WRONG_SEQUENCE
  /\ a_results.expected # NoMatch

\* the sequence-mismatch test of lines 775-805
ShouldRetry(a_results, i_retry) ==
  /\ a_results.xc_code # 0
  /\ a_results.codespace = "sdk"
  /\ a_results.code = SDK_WRONG_SEQUENCE
  /\ i_retry < MAX_RETRY
  /\ a_results.expected # NoMatch

\* broadcast_result resolves with a_results
broadcast_returns(e, a_results) ==
  /\ exec[e].pc = "broadcast"
  /\ IF ShouldRetry(a_results, exec[e].i_retry)
     THEN /\ exec' = [exec EXCEPT ![e].pc = "auth", ![e].a_results = a_results]
          /\ last_op' = "other"
          /\ delivered' = NoDelivery
          /\ UNCHANGED <<a_enqueued, c_clearing, reqs, future, was_postponed, src, http>>
     ELSE Finish(e, a_results)

\* broadcast_result rejects
broadcast_throws(e) ==
  /\ exec[e].pc = "broadcast"
  /\ Catch(e)

\* mutant: the retry keeps the auth it had
auth_returns_keep_auth(e, account_number) ==
  /\ exec[e].pc = "auth"
  /\ LET x == Attempt(exec[e], exec[e].a_dequeued, exec[e].i_retry + 1,
                      exec[e].z_auth)
     IN /\ exec' = [exec EXCEPT ![e] = x]
        /\ was_postponed' = was_postponed \cup Range(x.a_postponed)
  /\ last_op' = "other"
  /\ delivered' = NoDelivery
  /\ UNCHANGED <<a_enqueued, c_clearing, reqs, future, src, http>>

\* auth(k_wallet) resolves: set z_auth, continue RETRY_TRANSACTION
auth_returns(e, account_number) ==
  /\ exec[e].pc = "auth"
  /\ LET x == Attempt(exec[e], exec[e].a_dequeued, exec[e].i_retry + 1,
                      <<account_number, exec[e].a_results.expected>>)
     IN /\ exec' = [exec EXCEPT ![e] = x]
        /\ was_postponed' = was_postponed \cup Range(x.a_postponed)
  /\ last_op' = "other"
  /\ delivered' = NoDelivery
  /\ UNCHANGED <<a_enqueued, c_clearing, reqs, future, src, http>>

\* auth(k_wallet) rejects
auth_throws(e) ==
  /\ exec[e].pc = "auth"
  /\ Catch(e)

Next ==
  \/ \E m \in Payloads, xg \in GasLimits, g \in Grantees : enqueue(m, xg, g)
  \/ check_queue
  \/ \E e \in Execs : sign_returns(e)
  \/ \E e \in Execs : sign_throws(e)
  \/ \E e \in Execs, res \in TxOutcomes : broadcast_returns(e, res)
  \/ \E e \in Execs : broadcast_throws(e)
  \/ \E e \in Execs, n \in AccountNumbers : auth_returns(e, n)
  \/ \E e \in Execs : auth_throws(e)

Spec == Init /\ [][Next]_vars

TypeOK ==
  /\ a_enqueued \in Seq(1..MaxReq)
  /\ c_clearing \in 0..CLEARING_AFTER_SUBMIT
  /\ Len(reqs) = Len(future)
  /\ \A e \in Execs : exec[e].pc \in {"idle", "sign", "broadcast", "auth"}

(***************************************************************************)
(* Ticks keep arriving and every sign, broadcast and auth call returns or  *)
(* throws.                                                                 *)
(***************************************************************************)
FairSpec ==
  /\ Spec
  /\ WF_vars(check_queue)
  /\ \A e \in Execs : WF_vars(sign_returns(e) \/ sign_throws(e))
  /\ \A e \in Execs : WF_vars((\E res \in TxOutcomes : broadcast_returns(e, res))
                              \/ broadcast_throws(e))
  /\ \A e \in Execs : WF_vars((\E n \in AccountNumbers : auth_returns(e, n))
                              \/ auth_throws(e))

(***************************************************************************)
(* Behaviours in which no tick arrives while an invocation is running, the *)
(* signing succeeds and the node accepts every transaction.  They are      *)
(* behaviours of the program with one more request.                        *)
(***************************************************************************)
\* total number of calls of enqueue in one such behaviour
MaxReqSerial == 4

\* enqueue(atu8_msg, xg_limit, sa_grantee)
enqueue_serial(atu8_msg, xg_limit, sa_grantee) ==
  /\ Len(reqs) < MaxReqSerial
  /\ reqs' = Append(reqs, [atu8_msg |-> atu8_msg, xg_limit |-> xg_limit,
                           sa_grantee |-> sa_grantee])
  /\ future' = Append(future, Unsettled)
  /\ a_enqueued' = Append(a_enqueued, Len(reqs) + 1)
  /\ last_op' = "other"
  /\ delivered' = NoDelivery
  /\ UNCHANGED <<c_clearing, exec, was_postponed, src, http>>

\* check_queue called while no invocation is suspended
check_queue_serial ==
  /\ Running = {}
  /\ check_queue

SerialNext ==
  \/ \E m \in Payloads, xg \in GasLimits, g \in Grantees : enqueue_serial(m, xg, g)
  \/ check_queue_serial
  \/ \E e \in Execs : sign_returns(e)
  \/ \E e \in Execs : broadcast_returns(e, TxOk)

SerialSpec == Init /\ [][SerialNext]_vars

(***************************************************************************)
(* The block event source on its own: the callbacks of subscribe_new_blocks*)
(* and of check_queue_regularly, with nothing enqueued, so that every tick *)
(* is an entry of check_queue that finds the queue empty.                  *)
(***************************************************************************)
QueueIdle ==
  UNCHANGED <<a_enqueued, c_clearing, reqs, future, exec, was_postponed, http>>

\* a step of the source that does not call check_queue
no_tick ==
  /\ last_op' = "other"
  /\ delivered' = NoDelivery
  /\ QueueIdle

\* void check_queue(...) with c_clearing = 0 and nothing enqueued
tick ==
  /\ c_clearing = 0
  /\ Len(a_enqueued) = 0
  /\ last_op' = "check_queue"
  /\ delivered' = NoDelivery
  /\ QueueIdle

\* timeout_exec resolves with [k_ws, false]: nothing else happens
ws_established(s) ==
  /\ src.sockets[s] = "connecting"
  /\ src' = [src EXCEPT !.sockets[s] = "open"]
  /\ no_tick

\* timeout_exec resolves with [undefined, true] after 30 s
establish_timeout(s) ==
  /\ src.sockets[s] = "connecting"
  /\ src.resub < MaxResub
  /\ src' = [check_queue_regularly(src) EXCEPT !.sockets[s] = "abandoned",
                                               !.resub = @ + 1]
  /\ no_tick

\* the connection of an abandoned attempt completes
ws_late_open(s) ==
  /\ src.sockets[s] = "abandoned"
  /\ src' = [src EXCEPT !.sockets[s] = "zombie"]
  /\ no_tick

\* message callback: a NewBlock event arrives on socket s
block_event(s) ==
  /\ src.sockets[s] \in {"open", "zombie"}
  /\ src' = [src EXCEPT !.terminate = s, !.stale = FALSE]
  /\ tick

\* the callback of setInterval in check_queue_regularly
interval_tick ==
  /\ src.interval
  /\ UNCHANGED src
  /\ tick

\* the callback of i_terminate, 60 s after the last block event
inactivity_fires ==
  /\ src.terminate # 0
  /\ src' = [check_queue_regularly(src) EXCEPT
               !.terminate = 0,
               !.sockets[src.terminate] =
                  IF @ = "open" THEN "closing" ELSE @,
               !.stale = TRUE]
  /\ no_tick

\* close callback of socket s
ws_close(s) ==
  /\ src.sockets[s] \in {"open", "zombie", "closing"}
  /\ src' = subscribe_new_blocks([src EXCEPT !.terminate = 0,
                                             !.sockets[s] = "none"])
  /\ no_tick

\* the callback of setTimeout(() => subscribe_new_blocks(), 60e3)
resub_fires ==
  /\ src.resub > 0
  /\ FreeSockets(src) # {}
  /\ src' = subscribe_new_blocks([src EXCEPT !.resub = @ - 1])
  /\ no_tick

SourceNext ==
  \/ \E s \in Sockets : ws_established(s)
  \/ \E s \in Sockets : establish_timeout(s)
  \/ \E s \in Sockets : ws_late_open(s)
  \/ \E s \in Sockets : block_event(s)
  \/ interval_tick
  \/ inactivity_fires
  \/ \E s \in Sockets : ws_close(s)
  \/ resub_fires

SourceSpec == Init /\ [][SourceNext]_vars

SourceTypeOK ==
  /\ src.interval \in BOOLEAN
  /\ src.terminate \in 0..MaxSockets
  /\ src.resub \in 0..MaxResub
  /\ \A s \in Sockets :
       src.sockets[s] \in {"none", "connecting", "abandoned", "open",
                           "zombie", "closing"}

(***************************************************************************)
(* The claim handlers with the queue and a chain that records allowances.  *)
(* A handler whose awaited future has been settled resumes before any      *)
(* other callback runs (promise reactions are microtasks); the reactions   *)
(* of one settling step run in the order the futures were settled.         *)
(***************************************************************************)
Claims == 1..Len(http.claims)

\* the queue as enqueue changes it
QueueNow == [reqs |-> reqs, future |-> future, a_enqueued |-> a_enqueued]

\* enqueue(atu8_msg, xg_limit, sa_grantee) applied to q
Enqueue(q, atu8_msg, xg_limit, sa_grantee) ==
  [reqs |-> Append(q.reqs, [atu8_msg |-> atu8_msg, xg_limit |-> xg_limit,
                            sa_grantee |-> sa_grantee]),
   future |-> Append(q.future, Unsettled),
   a_enqueued |-> Append(q.a_enqueued, Len(q.reqs) + 1)]

\* handler c after it has called enqueue on q and awaits the new request
Awaiting(c, pc, q) ==
  [c EXCEPT !.pc = pc, !.wait = Len(q.reqs) + 1,
            !.enqueued = Append(@, Len(q.reqs) + 1)]

\* d_res.code(status).send(...)
Replied(c, status) == [c EXCEPT !.pc = "done", !.wait = 0, !.status = status]

\* the step writes q back and changes nothing else of the queue
QueueBecomes(q) ==
  /\ reqs' = q.reqs
  /\ future' = q.future
  /\ a_enqueued' = q.a_enqueued
  /\ last_op' = "other"
  /\ delivered' = NoDelivery
  /\ UNCHANGED <<c_clearing, exec, was_postponed, src>>

Resumable(h) ==
  /\ http.claims[h].pc \in {"revoke", "grant"}
  /\ future[http.claims[h].wait].state # "pending"

AnyResumable == \E h \in Claims : Resumable(h)

\* GET /claim/:address, POST /claim: claim() up to its first await
claim(sa_grantee) ==
  /\ ~AnyResumable
  /\ Len(http.claims) < MaxClaims
  /\ http' = [http EXCEPT !.claims =
                Append(@, IF AddressAccepted(sa_grantee)
                          THEN NewClaim(sa_grantee)
                          ELSE [Replied(NewClaim(sa_grantee), 400)
                                  EXCEPT !.queried = FALSE])]
  /\ QueueBecomes(QueueNow)

\* queryCosmosFeegrantAllowance resolves: the allowance check
query_returns(h, stamp) ==
  /\ ~AnyResumable
  /\ http.claims[h].pc = "query"
  /\ LET c == http.claims[h]
         q == QueueNow
     IN IF http.allowance = NoAllowance
        THEN /\ http' = [http EXCEPT !.claims[h] = Awaiting(c, "grant", q)]
             /\ QueueBecomes(Enqueue(q, MsgGrant(c.sa_grantee, stamp),
                                     XG_LIMIT_GRANT, c.sa_grantee))
        ELSE IF http.allowance.amount = XG_ALLOWANCE /\ http.allowance.fresh
        THEN /\ http' = [http EXCEPT !.claims[h] = Replied(c, 400)]
             /\ QueueBecomes(q)
        ELSE /\ http' = [http EXCEPT !.claims[h] = Awaiting(c, "revoke", q)]
             /\ QueueBecomes(Enqueue(q, MsgRevoke(c.sa_grantee),
                                     XG_LIMIT_REVOKE, c.sa_grantee))

\* mutant: the result of the revocation is not looked at
ResumeOne_ignore_code(acc, h, stamp) ==
  LET c == acc[1][h]
      q == acc[2]
  IN IF future[c.wait].state = "rejected"
     THEN <<[acc[1] EXCEPT ![h] = Replied(c, 500)], q>>
     ELSE IF c.pc = "revoke"
     THEN <<[acc[1] EXCEPT ![h] = Awaiting(c, "grant", q)],
            Enqueue(q, MsgGrant(c.sa_grantee, stamp), XG_LIMIT_GRANT,
                    c.sa_grantee)>>
     ELSE IF delivered.xc_code # 0
          THEN <<[acc[1] EXCEPT ![h] = Replied(c, 550)], q>>
          ELSE <<[acc[1] EXCEPT ![h] = Replied(c, 200)], q>>

\* the reaction of handler h to its settled future, on acc = <<claims, q>>
ResumeOne(acc, h, stamp) ==
  LET c == acc[1][h]
      q == acc[2]
  IN IF future[c.wait].state = "rejected"
     THEN <<[acc[1] EXCEPT ![h] = Replied(c, 500)], q>>
     ELSE IF c.pc = "revoke"
     THEN IF delivered.xc_code # 0
          THEN <<[acc[1] EXCEPT ![h] = Replied(c, 425)], q>>
          ELSE <<[acc[1] EXCEPT ![h] = Awaiting(c, "grant", q)],
                 Enqueue(q, MsgGrant(c.sa_grantee, stamp), XG_LIMIT_GRANT,
                         c.sa_grantee)>>
     ELSE IF delivered.xc_code # 0
          THEN <<[acc[1] EXCEPT ![h] = Replied(c, 550)], q>>
          ELSE <<[acc[1] EXCEPT ![h] = Replied(c, 200)], q>>

\* the reactions of the handlers in hs, by the order of their requests
RECURSIVE ResumeAll(_, _, _)
ResumeAll(acc, hs, stamps) ==
  IF hs = {} THEN acc
  ELSE LET h == CHOOSE x \in hs :
                  \A y \in hs : http.claims[x].wait <= http.claims[y].wait
       IN ResumeAll(ResumeOne(acc, h, stamps[h]), hs \ {h}, stamps)

\* the awaits of enqueue in claim() return or throw
claim_resume(stamps) ==
  /\ AnyResumable
  /\ LET out == ResumeAll(<<http.claims, QueueNow>>,
                          {h \in Claims : Resumable(h)}, stamps)
     IN /\ http' = [http EXCEPT !.claims = out[1]]
        /\ QueueBecomes(out[2])

\* what identifies the attempt invocation e is broadcasting
AttemptKey(e) == <<exec[e].snapshot, exec[e].i_retry>>

\* the node executes the transaction of invocation e, or refuses it
chain_includes(e, accepted) ==
  /\ ~AnyResumable
  /\ exec[e].pc = "broadcast"
  /\ http.included[e].key # AttemptKey(e)
  /\ LET out == ChainExec(http.allowance, exec[e].a_msgs, 1)
     IN http' = [http EXCEPT
                   !.allowance = IF accepted /\ out[2] THEN out[1] ELSE @,
                   !.included[e] =
                      [key |-> AttemptKey(e),
                       res |-> IF accepted /\ out[2] THEN TxOk ELSE TxFail]]
  /\ QueueBecomes(QueueNow)

\* the grantee pays a fee from the allowance
allowance_spent ==
  /\ ~AnyResumable
  /\ http.allowance.amount = GRANT_AMOUNT
  /\ http' = [http EXCEPT !.allowance.amount = @ - 1]
  /\ QueueBecomes(QueueNow)

\* time passes: less than an hour of the allowance is left
allowance_ages ==
  /\ ~AnyResumable
  /\ http.allowance # NoAllowance
  /\ http.allowance.fresh
  /\ http' = [http EXCEPT !.allowance.fresh = FALSE]
  /\ QueueBecomes(QueueNow)

\* a tick while no reaction is pending
claim_tick ==
  /\ ~AnyResumable
  /\ check_queue

claim_sign_returns(e) ==
  /\ ~AnyResumable
  /\ sign_returns(e)

claim_sign_throws(e) ==
  /\ ~AnyResumable
  /\ sign_throws(e)

\* broadcast_result returns what the node made of the transaction
claim_broadcast_returns(e) ==
  /\ ~AnyResumable
  /\ http.included[e].key = AttemptKey(e)
  /\ broadcast_returns(e, http.included[e].res)

ClaimNext ==
  \/ \E sa \in ClaimAddresses : claim(sa)
  \/ \E h \in Claims, stamp \in Stamps : query_returns(h, stamp)
  \/ \E stamps \in [1..MaxClaims -> Stamps] : claim_resume(stamps)
  \/ \E e \in Execs, accepted \in BOOLEAN : chain_includes(e, accepted)
  \/ allowance_spent
  \/ allowance_ages
  \/ claim_tick
  \/ \E e \in Execs : claim_sign_returns(e)
  \/ \E e \in Execs : claim_sign_throws(e)
  \/ \E e \in Execs : claim_broadcast_returns(e)

ClaimSpec == Init /\ [][ClaimNext]_vars

(***************************************************************************)
(* Properties                                                              *)
(***************************************************************************)
Requests == 1..Len(reqs)

Settled(r) == future[r].state # "pending"

\* request r becomes resolved (with a TxOutcome) in this step
BecomesResolved(r) == future[r].state = "pending" /\ future'[r].state = "resolved"

\* request r becomes rejected (with an error) in this step
BecomesRejected(r) == future[r].state = "pending" /\ future'[r].state = "rejected"

\* invocation e leaves the retry loop with a TxOutcome in this step
EndsWithOutcome(e) ==
  /\ exec[e].pc = "broadcast"
  /\ exec'[e].pc = "idle"
  /\ \E r \in Range(exec[e].a_dequeued) : BecomesResolved(r)

\* invocation e leaves through the catch block in this step
EndsWithError(e) ==
  /\ exec[e].pc # "idle"
  /\ exec'[e].pc = "idle"
  /\ \E r \in Range(exec[e].a_dequeued) : BecomesRejected(r)

\* C1: at most one invocation of check_queue is between its drain and the
\* settling of its futures; no second transaction is signed meanwhile.
C1_SingleSubmitter == Cardinality(Running) <= 1

\* C2: under FairSpec every enqueued request eventually has its future
\* settled, postponed requests included.
C2_EventuallySettled ==
  \A r \in 1..MaxReq : (r \in Requests) ~> (r \in Requests /\ Settled(r))

\* C3: the callback of no request is invoked more than once.
C3_SettledAtMostOnce == \A r \in Requests : future[r].calls <= 1

\* C3 witness: a request that a batch build postponed has been settled, and a
\* request has been rejected by the error path.
C3_Witness ==
  /\ \E r \in was_postponed : future[r].calls = 1
  /\ \E r \in Requests : future[r].state = "rejected"

\* C4: a future resolved with a TxOutcome was resolved with the outcome of a
\* transaction whose message list contains the request's payload.
C4_ResolvedByCarryingTx ==
  \A r \in Requests :
    future[r].state = "resolved" => reqs[r].atu8_msg \in Range(future[r].tx)

\* C5: in every signed transaction the number of distinct grantees of the
\* accepted requests equals the number of messages.
C5_DistinctGrantees ==
  \A e \in Running :
    /\ Len(exec[e].a_accepted) = Len(exec[e].a_msgs)
    /\ Cardinality({reqs[r].sa_grantee : r \in Range(exec[e].a_accepted)})
         = Len(exec[e].a_msgs)

\* C5 witness: a retry has signed a transaction of two messages after the
\* batch build postponed a request of an already claimed grantee.
C5_Witness ==
  \E e \in Running :
    /\ exec[e].pc = "sign"
    /\ exec[e].i_retry > 0
    /\ Len(exec[e].a_msgs) >= 2
    /\ exec[e].postponed_all # <<>>

\* C6: in every signed transaction the base64 encodings of the messages are
\* pairwise distinct.
C6_DistinctPayloads ==
  \A e \in Running :
    \A i, j \in 1..Len(exec[e].a_msgs) :
      i # j => safe_bytes_to_base64(exec[e].a_msgs[i])
                 # safe_bytes_to_base64(exec[e].a_msgs[j])

\* C6 witness: a transaction of two messages is signed for a snapshot that
\* holds the same payload twice, for two different grantees.
C6_Witness ==
  \E e \in Running :
    /\ Len(exec[e].a_msgs) >= 2
    /\ \E i, j \in 1..Len(exec[e].snapshot) :
         /\ i < j
         /\ reqs[exec[e].snapshot[i]].atu8_msg = reqs[exec[e].snapshot[j]].atu8_msg
         /\ reqs[exec[e].snapshot[i]].sa_grantee # reqs[exec[e].snapshot[j]].sa_grantee

\* C7: when a submission ends with a TxOutcome, every request postponed
\* while building that batch (in any attempt) is appended to the tail of
\* pending, unsettled.
C7_PostponedRequeued ==
  [][\A e \in Execs :
       EndsWithOutcome(e) =>
         /\ a_enqueued' = a_enqueued \o exec[e].postponed_all
         /\ \A q \in Range(exec[e].postponed_all) : ~Settled(q)']_vars

\* C8: when a submission throws, every request drained for that batch is
\* rejected, none is resolved, and pending does not get the postponed ones.
C8_ErrorRejectsAllDrained ==
  [][\A e \in Execs :
       EndsWithError(e) =>
         /\ \A r \in Range(exec[e].snapshot) : future'[r].state = "rejected"
         /\ a_enqueued' = a_enqueued]_vars

\* C9: an entry of check_queue with c_clearing > 0 decrements c_clearing by
\* one, leaves pending alone, signs nothing and settles nothing.
C9_CooldownTick ==
  [][(last_op' = "check_queue" /\ c_clearing > 0) =>
       /\ c_clearing' = c_clearing - 1
       /\ a_enqueued' = a_enqueued
       /\ exec' = exec
       /\ future' = future]_vars

\* C9 witness: a cooldown tick has just run with requests waiting in pending;
\* it left them there and started no invocation.
C9_Witness ==
  /\ last_op = "check_queue"
  /\ c_clearing = 0
  /\ Len(a_enqueued) > 0
  /\ Running = {}

\* C10: the step that resolves a batch's futures sets c_clearing to 1; only
\* an entry of check_queue lowers it, and that entry submits nothing.
C10_CooldownArmed ==
  [][/\ (\E r \in Requests : BecomesResolved(r)) =>
          c_clearing' = CLEARING_AFTER_SUBMIT
     /\ (c_clearing >= 1 /\ last_op' # "check_queue") => c_clearing' >= 1
     /\ (c_clearing >= 1 /\ last_op' = "check_queue") =>
          (exec' = exec /\ future' = future)]_vars

\* C10 witness: a submission has just resolved its futures, the cooldown is
\* armed and a request is waiting in pending for the next tick.
C10_Witness ==
  /\ last_op = "other"
  /\ c_clearing = CLEARING_AFTER_SUBMIT
  /\ Running = {}
  /\ Len(a_enqueued) > 0
  /\ \E r \in Requests : future[r].state = "resolved"

\* a TxOutcome that reports a sequence mismatch with a parseable "expected N"
IsMismatch(a_results) ==
  /\ a_results.xc_code # 0
  /\ a_results.codespace = "sdk"
  /\ a_results.code = 32
  /\ a_results.expected \in ExpectedSeqs

\* C11: the first attempt of an invocation is signed with no auth override;
\* a broadcast that returns a sequence mismatch with "expected N" after fewer
\* than two retries is not delivered but leads to the auth fetch, and the
\* attempt that follows is signed with (fetched account_number, N).
C11_AuthOverrideOnRetry ==
  [][\A e \in Execs :
       /\ (exec[e].pc = "idle" /\ exec'[e].pc = "sign") =>
            (exec'[e].i_retry = 0 /\ exec'[e].z_auth = <<>>)
       /\ (exec[e].pc = "sign" /\ exec'[e].pc = "broadcast") =>
            (exec'[e].z_auth = exec[e].z_auth
             /\ (exec[e].i_retry = 0 => exec[e].z_auth = <<>>))
       /\ (exec[e].pc = "broadcast" /\ exec'[e].pc = "idle"
           /\ delivered' # NoDelivery) =>
            ~(IsMismatch(delivered') /\ exec[e].i_retry < 2)
       /\ (exec[e].pc = "broadcast" /\ exec'[e].pc = "auth") =>
            (IsMismatch(exec'[e].a_results) /\ exec[e].i_retry < 2)
       /\ (exec[e].pc = "auth" /\ exec'[e].pc = "sign") =>
            /\ exec'[e].i_retry = exec[e].i_retry + 1
            /\ \E n \in AccountNumbers :
                 exec'[e].z_auth = <<n, exec[e].a_results.expected>>]_vars

\* C11 witness: after a mismatch reporting "expected 42" the batch has been
\* signed again with the override and is being broadcast.
C11_Witness ==
  \E e \in Execs :
    /\ exec[e].pc = "broadcast"
    /\ exec[e].i_retry = 1
    /\ exec[e].a_results = TxSeq(42)
    /\ exec[e].z_auth = <<7, 42>>

\* what is left of the retry loop of invocation x: attempts still allowed and
\* the awaits of the current attempt still ahead
LoopRank(x) ==
  IF x.pc = "idle" THEN 0
  ELSE 3 * (2 - x.i_retry)
       + (IF x.pc = "sign" THEN 3 ELSE IF x.pc = "broadcast" THEN 2 ELSE 1)

\* C12: an invocation makes at most three sign-and-broadcast attempts for its
\* snapshot (i_retry never exceeds 2); every step of a running invocation
\* lowers LoopRank, so the loop ends once its awaits return; the outcome of
\* the third attempt is never retried: if broadcast returns, it is delivered
\* and the futures of the batch are settled, also when it is the third
\* sequence mismatch in a row.
C12_AtMostThreeAttempts ==
  [][\A e \in Execs :
       /\ exec'[e].i_retry <= 2
       /\ (exec[e].pc # "idle" /\ exec'[e] # exec[e]) =>
            (LoopRank(exec'[e]) < LoopRank(exec[e]) /\ LoopRank(exec'[e]) >= 0)
       /\ (exec[e].pc = "broadcast" /\ exec[e].i_retry = 2
           /\ exec'[e] # exec[e]) =>
            /\ exec'[e].pc = "idle"
            /\ \A r \in Range(exec[e].a_dequeued) : Settled(r)'
       /\ (exec[e].pc = "broadcast" /\ exec'[e].pc = "idle"
           /\ delivered' # NoDelivery /\ IsMismatch(delivered')) =>
            exec[e].i_retry = 2]_vars

\* C12 witness: a sequence mismatch has just been delivered as the result of
\* a batch; it is only delivered by a third attempt, whose two predecessors
\* were retried for the same error.
C12_Witness ==
  /\ delivered = TxSeq(42)
  /\ Running = {}
  /\ \E r \in Requests : future[r].state = "resolved"

\* the batch builder as the design states it, applied to s[k..]: a request
\* is dropped when its payload has been accepted, else postponed when its
\* grantee is claimed, else accepted; only accepted payloads count as seen
RECURSIVE DesignBuild(_, _, _)
DesignBuild(s, k, acc) ==
  IF k > Len(s) THEN acc
  ELSE LET r == s[k]
           visited == [acc EXCEPT !.a_visited = Append(@, r)]
       IN IF reqs[r].atu8_msg \in acc.seen_payloads
          THEN DesignBuild(s, k + 1, [visited EXCEPT !.a_dropped = Append(@, r)])
          ELSE IF reqs[r].sa_grantee \in acc.claimed_grantees
          THEN DesignBuild(s, k + 1, [visited EXCEPT !.a_postponed = Append(@, r)])
          ELSE DesignBuild(s, k + 1,
                 [visited EXCEPT !.a_msgs = Append(@, reqs[r].atu8_msg),
                                 !.seen_payloads = @ \cup {reqs[r].atu8_msg},
                                 !.claimed_grantees = @ \cup {reqs[r].sa_grantee}])

DesignBatch(s) ==
  DesignBuild(s, 1, [a_msgs |-> <<>>, a_postponed |-> <<>>, a_dropped |-> <<>>,
                     a_visited |-> <<>>, seen_payloads |-> {},
                     claimed_grantees |-> {}])

\* C13: the batch and the postponed list that the first attempt of an
\* invocation builds from its drained snapshot are those of the design's
\* algorithm, which visits every request of the snapshot once.
C13_BuildEqualsDesign ==
  \A e \in Execs :
    (exec[e].pc # "idle" /\ exec[e].i_retry = 0) =>
      /\ BuildBatch(exec[e].snapshot).a_visited = exec[e].snapshot
      /\ exec[e].a_msgs = DesignBatch(exec[e].snapshot).a_msgs
      /\ exec[e].a_postponed = DesignBatch(exec[e].snapshot).a_postponed

\* the requests of snapshot s that are not in the list p, in the order of s
Without(s, p) == SelectSeq(s, LAMBDA r : r \notin Range(p))

\* C14 as stated: the gas limit of every signed transaction is the sum of
\* the limits of all requests drained for it, duplicates and postponed
\* requests included.
C14_GasSumsAllDrained ==
  \A e \in Running : exec[e].xg_limit = SumLimits(exec[e].snapshot)

\* C14 amended: the gas limit of every signed transaction is the sum of the
\* limits of the drained requests except those postponed by this or an
\* earlier attempt; duplicates and requests the build did not visit count.
C14_GasSumsDrainedNotPostponed ==
  \A e \in Running :
    exec[e].xg_limit =
      SumLimits(Without(exec[e].snapshot, exec[e].postponed_all))

\* C14 witness: a transaction is being signed for a snapshot of three
\* requests of which one was postponed and one is not in the batch; its gas
\* limit is the sum of two limits.
C14_Witness ==
  \E e \in Execs :
    /\ exec[e].pc = "sign"
    /\ Len(exec[e].snapshot) = 3
    /\ Len(exec[e].a_postponed) = 1
    /\ Len(exec[e].a_msgs) = 1
    /\ exec[e].xg_limit = 2 * XG_LIMIT_REVOKE

\* t lists elements of s, each once, in the order they have in s
OrderedSubseq(t, s) ==
  /\ \A i \in 1..Len(t) : indexOf(s, t[i]) > 0
  /\ \A i, j \in 1..Len(t) : i < j => indexOf(s, t[i]) < indexOf(s, t[j])

\* C15: the messages of every transaction being signed or broadcast are the
\* payloads of requests of the drained snapshot in snapshot order, the
\* snapshot is in enqueue order as far as its requests were never postponed,
\* and so is pending.  Requests are numbered in the order of their enqueue.
C15_EnqueueOrderKept ==
  /\ \A e \in Running :
       /\ OrderedSubseq(exec[e].a_accepted, exec[e].snapshot)
       /\ Len(exec[e].a_msgs) = Len(exec[e].a_accepted)
       /\ \A i \in 1..Len(exec[e].a_msgs) :
            exec[e].a_msgs[i] = reqs[exec[e].a_accepted[i]].atu8_msg
       /\ \A i, j \in 1..Len(exec[e].snapshot) :
            (i < j /\ exec[e].snapshot[i] \notin was_postponed
                   /\ exec[e].snapshot[j] \notin was_postponed) =>
              exec[e].snapshot[i] < exec[e].snapshot[j]
  /\ \A i, j \in 1..Len(a_enqueued) :
       (i < j /\ a_enqueued[i] \notin was_postponed
              /\ a_enqueued[j] \notin was_postponed) =>
         a_enqueued[i] < a_enqueued[j]

\* C15 witness: of a snapshot of three requests the first and the third are
\* in the transaction being signed, in that order, the second being dropped.
C15_Witness ==
  \E e \in Execs :
    /\ exec[e].pc = "sign"
    /\ exec[e].snapshot = <<1, 2, 3>>
    /\ exec[e].a_accepted = <<1, 3>>
    /\ exec[e].a_msgs = <<reqs[1].atu8_msg, reqs[3].atu8_msg>>
    /\ reqs[1].atu8_msg # reqs[3].atu8_msg

\* C16: a submission works on the snapshot it drained and on nothing else.
\* Its lists hold requests of its snapshot only and the snapshot does not
\* change while it runs; an enqueue touches no running invocation and puts
\* its request into pending; a future is settled only by the invocation that
\* ends in that step and has the request in its snapshot; a request leaves
\* pending only when an entry of check_queue drains it into a new snapshot.
C16_EnqueueDuringSubmission ==
  [][/\ \A e \in Execs :
          /\ Range(exec'[e].a_dequeued) \cup Range(exec'[e].a_accepted)
               \cup Range(exec'[e].a_postponed) \subseteq Range(exec'[e].snapshot)
          /\ (exec[e].pc # "idle" /\ exec'[e].pc # "idle") =>
               exec'[e].snapshot = exec[e].snapshot
     /\ Len(reqs') > Len(reqs) =>
          /\ exec' = exec
          /\ future'[Len(reqs')] = Unsettled
          /\ a_enqueued' = Append(a_enqueued, Len(reqs'))
          /\ \A e \in Execs : Len(reqs') \notin Range(exec[e].snapshot)
     /\ \A r \in Requests :
          /\ (BecomesResolved(r) \/ BecomesRejected(r)) =>
               \E e \in Execs : /\ exec[e].pc # "idle"
                                /\ exec'[e].pc = "idle"
                                /\ r \in Range(exec[e].snapshot)
          /\ (r \in Range(a_enqueued) /\ r \notin Range(a_enqueued')) =>
               /\ last_op' = "check_queue"
               /\ \E e \in Execs : /\ exec[e].pc = "idle"
                                   /\ r \in Range(exec'[e].snapshot)]_vars

\* C16 witness: a request enqueued after the drain of a submission that is
\* now broadcasting its retry is waiting in pending, unsettled.
C16_Witness ==
  \E e \in Execs :
    /\ exec[e].pc = "broadcast"
    /\ exec[e].i_retry = 1
    /\ exec[e].snapshot = <<1>>
    /\ a_enqueued = <<2>>
    /\ ~Settled(2)

\* the requests of s have pairwise distinct grantees and payloads
PairwiseDistinct(s) ==
  \A i, j \in 1..Len(s) :
    i # j => /\ reqs[s[i]].sa_grantee # reqs[s[j]].sa_grantee
             /\ reqs[s[i]].atu8_msg # reqs[s[j]].atu8_msg

\* C17: an entry of check_queue with c_clearing = 0 and requests in pending
\* leaves pending empty in that same step and all of the requests in the
\* snapshot of one invocation; if their grantees and payloads are pairwise
\* distinct, the transaction of every attempt carries all their payloads,
\* none is postponed, and the TxOutcome with which the invocation ends
\* resolves each of them as the result of that transaction.
C17_DrainAllInOneTx ==
  [][/\ (last_op' = "check_queue" /\ c_clearing = 0 /\ Len(a_enqueued) > 0) =>
          /\ a_enqueued' = <<>>
          /\ \E e \in Execs : /\ exec[e].pc = "idle"
                              /\ exec'[e].pc = "sign"
                              /\ exec'[e].snapshot = a_enqueued
     /\ \A e \in Execs :
          (exec'[e].pc # "idle" /\ PairwiseDistinct(exec'[e].snapshot)) =>
            /\ exec'[e].a_msgs = [i \in 1..Len(exec'[e].snapshot) |->
                                    reqs[exec'[e].snapshot[i]].atu8_msg]
            /\ exec'[e].a_dequeued = exec'[e].snapshot
            /\ exec'[e].a_postponed = <<>>
     /\ \A e \in Execs :
          (EndsWithOutcome(e) /\ PairwiseDistinct(exec[e].snapshot)) =>
            /\ delivered' \in TxOutcomes
            /\ \A r \in Range(exec[e].snapshot) :
                 /\ future'[r].state = "resolved"
                 /\ future'[r].calls = 1
                 /\ future'[r].tx = exec[e].a_msgs]_vars

\* C17 witness: two requests with different grantees and payloads, drained by
\* one tick, have just been resolved with the outcome of one transaction of
\* two messages.
C17_Witness ==
  /\ Len(reqs) = 2
  /\ PairwiseDistinct(<<1, 2>>)
  /\ delivered = TxOk
  /\ a_enqueued = <<>>
  /\ \A r \in {1, 2} : /\ future[r].state = "resolved"
                        /\ future[r].tx = <<reqs[1].atu8_msg, reqs[2].atu8_msg>>

\* C18: in every state of the block event source something is armed that
\* will call check_queue again without a block event: the polling interval,
\* the inactivity timer, a re-subscribe timer or an awaited subscription
\* attempt.
C18_TickSourceArmed ==
  \/ src.interval
  \/ src.terminate # 0
  \/ src.resub > 0
  \/ \E s \in Sockets : src.sockets[s] = "connecting"

\* C19: from the firing of the inactivity timer until the next block event
\* the polling interval is active.
C19_PollingWhileReconnecting == src.stale => src.interval

\* C20: while the subscription attempt scheduled by an establishment
\* timeout has not started, the polling interval is active.
C20_PollingUntilRetry == src.resub > 0 => src.interval

\* the requests held by the running invocations: their dequeued lists and,
\* until the attempt ends, the requests it postponed
Held ==
  UNION {Range(exec[e].a_dequeued) \cup Range(exec[e].a_postponed) :
           e \in Running}

\* C24: every request whose future is unsettled is in pending or is held by
\* an invocation of check_queue that has not finished.
C24_NoRequestLost ==
  \A r \in Requests : ~Settled(r) => (r \in Range(a_enqueued) \/ r \in Held)

\* C25: every attempt of an invocation signs the message list and the gas
\* limit of its first attempt, which is the batch built from the snapshot.
C25_RetrySignsSameBatch ==
  \A e \in Running :
    /\ exec[e].a_msgs = BuildBatch(exec[e].snapshot).a_msgs
    /\ exec[e].xg_limit = SumLimits(BuildBatch(exec[e].snapshot).a_dequeued)

\* every transaction in flight has a message, and it starts with the payload
\* of the first request of the snapshot (after this step)
FirstRequestAccepted ==
  \A e \in Execs :
    exec'[e].pc # "idle" =>
      /\ Len(exec'[e].a_msgs) >= 1
      /\ exec'[e].a_accepted[1] = exec'[e].snapshot[1]
      /\ exec'[e].a_msgs[1] = reqs'[exec'[e].snapshot[1]].atu8_msg

\* this step signs nothing, settles nothing and leaves the cooldown alone
NothingDone == exec' = exec /\ future' = future /\ c_clearing' = c_clearing

\* C27 as stated: every signed transaction has at least one message, the
\* first request of a snapshot is accepted on every attempt, and an entry of
\* check_queue with nothing in pending signs nothing, settles nothing and
\* leaves c_clearing unchanged.
C27_EmptyTickDoesNothing ==
  [][/\ FirstRequestAccepted
     /\ (last_op' = "check_queue" /\ Len(a_enqueued) = 0) => NothingDone]_vars

\* C27 amended: as above, for an entry of check_queue with nothing in
\* pending and c_clearing = 0; with c_clearing > 0 the entry decrements
\* c_clearing whatever pending holds (that is C9).
C27_EmptyTickNoCooldown ==
  [][/\ FirstRequestAccepted
     /\ (last_op' = "check_queue" /\ Len(a_enqueued) = 0 /\ c_clearing = 0) =>
          NothingDone]_vars

\* C27 witness: the retry of a snapshot of three requests is being signed
\* with one message, the payload of the first request, and an empty tick
\* with no cooldown is possible meanwhile.
C27_Witness ==
  \E e \in Execs :
    /\ exec[e].pc = "sign"
    /\ exec[e].i_retry = 1
    /\ Len(exec[e].snapshot) = 3
    /\ exec[e].a_msgs = <<reqs[exec[e].snapshot[1]].atu8_msg>>
    /\ a_enqueued = <<>>
    /\ c_clearing = 0
    /\ last_op = "check_queue"

\* invocation e ends in this step, by a TxOutcome or by an error
Ends(e) == exec[e].pc # "idle" /\ exec'[e].pc = "idle"

\* C26: the invocation that postponed a request does not settle it, and a
\* request that was once postponed is settled only by the end of an
\* invocation whose transaction carries its payload.
C26_PostponedSettledByOwnTx ==
  [][\A e \in Execs :
       Ends(e) =>
         /\ \A r \in Range(exec[e].postponed_all) : future'[r] = future[r]
         /\ \A r \in was_postponed :
              (~Settled(r) /\ Settled(r)') =>
                reqs[r].atu8_msg \in Range(exec[e].a_msgs)]_vars

\* sockets that deliver block events
Delivering == {s \in Sockets : src.sockets[s] \in {"open", "zombie"}}

\* C28: the polling interval is not running while a socket delivers block
\* events, and at most one socket is being opened or delivering events, so
\* that a block causes one entry of check_queue.
C28_OneTickSource ==
  /\ ~(src.interval /\ Delivering # {})
  /\ Cardinality(Delivering
                 \cup {s \in Sockets : src.sockets[s] = "connecting"}) <= 1

ClaimTypeOK ==
  /\ Len(http.claims) <= MaxClaims
  /\ \A h \in Claims :
       /\ http.claims[h].pc \in {"query", "revoke", "grant", "done"}
       /\ http.claims[h].status \in {0, 200, 400, 425, 500, 550}
       /\ (http.claims[h].pc = "done") = (http.claims[h].status # 0)
  /\ http.allowance.amount \in {0, GRANT_AMOUNT - 1, GRANT_AMOUNT}

\* the address does not start with "secret1", fails bech32 decoding or does
\* not decode to 20 bytes
Malformed(sa) == sa.hrp # "secret" \/ ~sa.checksum \/ Len(sa.data) # 20

\* C21: a claim with a malformed address is answered 400 in the step that
\* receives it, which leaves the queue alone; the handler never queries the
\* allowance and never enqueues.
C21_MalformedAddressRejected ==
  [][/\ \A h \in 1..Len(http'.claims) :
          Malformed(http'.claims[h].sa_grantee) =>
            /\ http'.claims[h].status = 400
            /\ ~http'.claims[h].queried
            /\ http'.claims[h].enqueued = <<>>
     /\ (Len(http'.claims) > Len(http.claims)
         /\ Malformed(http'.claims[Len(http'.claims)].sa_grantee)) =>
          (a_enqueued' = a_enqueued /\ reqs' = reqs /\ future' = future)]_vars

\* C21 witness: a claim with an address of three bytes has been answered 400
\* while the request of an earlier claim is waiting in pending.
C21_Witness ==
  /\ Len(http.claims) = 2
  /\ http.claims[2].sa_grantee = AddrShort
  /\ http.claims[2].status = 400
  /\ http.claims[1].pc = "grant"
  /\ a_enqueued = <<1>>

\* C22: a handler that awaits its revocation enqueues the grant only in a
\* step in which that future is resolved with code 0, and then as a new
\* request at the tail of pending; when the future is resolved with another
\* code it replies 425 and enqueues nothing.  The revoke and the grant of a
\* claim are never both in pending nor both in the snapshot of an
\* invocation.
C22_GrantAfterRevokeSucceeded ==
  [][\A h \in Claims :
       /\ (http.claims[h].pc = "revoke" /\ http'.claims[h].pc = "grant") =>
            /\ future[http.claims[h].wait].state = "resolved"
            /\ delivered # NoDelivery
            /\ delivered.xc_code = 0
            /\ http'.claims[h].wait \notin 1..Len(reqs)
            /\ http'.claims[h].wait \in Range(a_enqueued')
            /\ reqs'[http'.claims[h].wait].atu8_msg[1] = 10
       /\ (http.claims[h].pc = "revoke" /\ http'.claims[h].pc = "done"
           /\ future[http.claims[h].wait].state = "resolved") =>
            /\ delivered.xc_code # 0
            /\ http'.claims[h].status = 425
            /\ http'.claims[h].enqueued = http.claims[h].enqueued
       /\ Len(http'.claims[h].enqueued) = 2 =>
            LET both == Range(http'.claims[h].enqueued)
            IN /\ reqs'[http'.claims[h].enqueued[1]].atu8_msg[1] = 18
               /\ ~(both \subseteq Range(a_enqueued'))
               /\ \A e \in Execs : ~(both \subseteq Range(exec'[e].snapshot))]_vars

\* C22 witness: a claim that found a used allowance has had its revocation
\* resolved and has then enqueued its grant, which is waiting in pending.
C22_Witness ==
  \E h \in Claims :
    /\ http.claims[h].pc = "grant"
    /\ Len(http.claims[h].enqueued) = 2
    /\ future[http.claims[h].enqueued[1]].state = "resolved"
    /\ a_enqueued = <<http.claims[h].enqueued[2]>>

\* C23: when two claims for the same well-formed address have both been
\* answered, one of them with 200, and the allowance on chain is full with
\* more than an hour left, the other one was answered 400.
C23_OneGrantOneReject ==
  (/\ Len(http.claims) = 2
   /\ \A h \in Claims : /\ http.claims[h].sa_grantee = AddrValid
                        /\ http.claims[h].pc = "done"
   /\ \E h \in Claims : http.claims[h].status = 200
   /\ http.allowance.amount = XG_ALLOWANCE
   /\ http.allowance.fresh)
  => {http.claims[h].status : h \in Claims} = {200, 400}
====
